---- MODULE Spec2Model ----
(***************************************************************************)
(* Model of the bv05-forecast program: weather1.py (fetch, transform,      *)
(* file export, script entry point) and application.py (the web route).    *)
(*                                                                         *)
(* Python values are records tagged by a `shape` field (JSON payloads,     *)
(* None, tables, a propagating exception) or by a `t` field (cells).       *)
(***************************************************************************)
EXTENDS Integers, Sequences, FiniteSets, TLC

\* ---------------------------------------------------------------- bounds
MaxN == 2          \* longest `time` list of a generated payload
MaxRequests == 2   \* number of /api/weather requests served

\* ------------------------------------------------- configuration (weather1.py)
WEATHER_VARIABLES ==
    << "temperature_2m_mean", "relative_humidity_2m_mean",
       "wind_speed_10m_mean", "cloud_cover_mean", "precipitation_sum",
       "shortwave_radiation_sum", "apparent_temperature_mean",
       "dew_point_2m_mean" >>

VarSet == { WEATHER_VARIABLES[i] : i \in 1..Len(WEATHER_VARIABLES) }

\* a key the API may return under `daily` that is not configured
ExtraKey == "weather_code"

\* ------------------------------------------------------------ Python values
None == [shape |-> "None"]
Raise(e) == [shape |-> "raise", exc |-> e]

Num(n) == [t |-> "num", v |-> n]
Str(s) == [t |-> "str", s |-> s]
Null == [t |-> "null"]
NaN == [t |-> "NaN"]
NaT == [t |-> "NaT"]

\* Python truthiness of a decoded body (weather1.py:183, `if weather_json:`)
Truthy(x) ==
    CASE x.shape = "None" -> FALSE
      [] x.shape = "list" -> x.len > 0
      [] x.shape = "dict" -> x.keys # {}
      [] OTHER -> TRUE

\* Python truthiness of a unit string (weather1.py:111, `if unit_str:`)
UnitTruthy(u) == u # ""

\* ------------------------------------------------------- pandas conversions
DigitVal ==
    [c \in {"0", "1", "2", "3", "4", "5", "6", "7", "8", "9"} |->
        CASE c = "0" -> 0 [] c = "1" -> 1 [] c = "2" -> 2 [] c = "3" -> 3
          [] c = "4" -> 4 [] c = "5" -> 5 [] c = "6" -> 6 [] c = "7" -> 7
          [] c = "8" -> 8 [] OTHER -> 9]

\* a string cell is a sequence of characters; it is numeric when it is a
\* non-empty run of decimal digits
IsNumericStr(s) == Len(s) > 0 /\ \A i \in 1..Len(s) : s[i] \in DOMAIN DigitVal

RECURSIVE DigitsValue(_)
DigitsValue(s) ==
    IF s = << >> THEN 0
    ELSE 10 * DigitsValue(SubSeq(s, 1, Len(s) - 1)) + DigitVal[s[Len(s)]]

\* pd.to_numeric(..., errors='coerce') on one cell
to_numeric_cell(c) ==
    CASE c.t = "num" -> c
      [] c.t = "str" -> IF IsNumericStr(c.s) THEN Num(DigitsValue(c.s)) ELSE NaN
      [] OTHER -> NaN

\* variant: one value that fails coercion voids the whole column
to_numeric_columnwise(col) ==
    IF \E i \in 1..Len(col) : to_numeric_cell(col[i]) = NaN
    THEN [i \in 1..Len(col) |-> NaN]
    ELSE [i \in 1..Len(col) |-> to_numeric_cell(col[i])]

to_numeric(col) == [i \in 1..Len(col) |-> to_numeric_cell(col[i])]

\* the ISO date strings the forecast API returns for the 16-day horizon
IsoDate ==
    [s \in {"2024-01-01", "2024-01-02", "2024-01-03", "2024-01-04"} |->
        [t |-> "date", y |-> 2024, m |-> 1,
         d |-> CASE s = "2024-01-01" -> 1 [] s = "2024-01-02" -> 2
                 [] s = "2024-01-03" -> 3 [] OTHER -> 4]]

\* can pd.to_datetime convert this cell without raising?
DateConvertible(c) == c.t = "null" \/ (c.t = "str" /\ c.s \in DOMAIN IsoDate)

\* pd.to_datetime on one cell: null becomes NaT, an ISO string a timestamp
to_datetime_cell(c) == IF c.t = "null" THEN NaT ELSE IsoDate[c.s]

to_datetime(col) == [i \in 1..Len(col) |-> to_datetime_cell(col[i])]

\* ------------------------------------------------------ process_weather_data
\* variant: the unit suffix is forgotten
new_col_name_nounit(var, daily_units) == var

\* variant: tests `var in daily_units` instead of the unit's truthiness
new_col_name_keyed(var, daily_units) ==
    IF var \in DOMAIN daily_units.units
    THEN var \o " (" \o daily_units.units[var] \o ")"
    ELSE var

\* f"{var} ({unit_str})" or the bare name (weather1.py:110-114)
new_col_name(var, daily_units) ==
    LET has == var \in DOMAIN daily_units.units
    IN  IF has /\ UnitTruthy(daily_units.units[var])
        THEN var \o " (" \o daily_units.units[var] \o ")"
        ELSE var

\* variant: the length of the list is not compared with len(dates)
column_values_nolen(var, daily_data, n) ==
    IF var \notin DOMAIN daily_data.vars
    THEN [i \in 1..n |-> Null]
    ELSE IF daily_data.vars[var].shape # "list"
         THEN [i \in 1..n |-> Null]
         ELSE daily_data.vars[var].vals

\* the values stored for one variable (weather1.py:118-125)
column_values(var, daily_data, n) ==
    IF var \notin DOMAIN daily_data.vars
    THEN [i \in 1..n |-> Null]
    ELSE IF daily_data.vars[var].shape # "list"
            \/ Len(daily_data.vars[var].vals) # n
         THEN [i \in 1..n |-> Null]
         ELSE daily_data.vars[var].vals

\* dict assignment d[k] = v: a new key is appended, an old key keeps its place
DictSet(d, k, v) ==
    [keys |-> IF k \in DOMAIN d.vals THEN d.keys ELSE Append(d.keys, k),
     vals |-> [x \in (DOMAIN d.vals) \cup {k} |-> IF x = k THEN v ELSE d.vals[x]]]

\* the loop over VARIABLES (weather1.py:108-127), from index i on
RECURSIVE ExtractLoop(_, _, _, _, _)
ExtractLoop(i, daily_data, daily_units, n, acc) ==
    IF i > Len(WEATHER_VARIABLES) THEN acc
    ELSE LET var == WEATHER_VARIABLES[i]
             name == new_col_name(var, daily_units)
         IN  ExtractLoop(i + 1, daily_data, daily_units, n,
                 [names |-> Append(acc.names, name),
                  processed |-> DictSet(acc.processed, name,
                                        column_values(var, daily_data, n))])

\* pd.DataFrame(processed), the numeric coercion loop and the date parse
\* (weather1.py:131-147); any exception in here is caught and gives None
BuildFrame(names, processed) ==
    LET coerced == [c \in DOMAIN processed.vals |->
                       IF c # "date" /\ \E i \in 1..Len(names) : names[i] = c
                       THEN to_numeric(processed.vals[c])
                       ELSE processed.vals[c]]
    IN  IF \E c \in DOMAIN processed.vals :
               Len(processed.vals[c]) # Len(processed.vals["date"])
        THEN None   \* pd.DataFrame raises on columns of unequal length
        ELSE IF \E i \in 1..Len(coerced["date"]) :
                   ~DateConvertible(coerced["date"][i])
        THEN None   \* pd.to_datetime raises
        ELSE [shape |-> "table",
              columns |-> processed.keys,
              cells |-> [c \in DOMAIN coerced |->
                            IF c = "date" THEN to_datetime(coerced[c])
                            ELSE coerced[c]]]

process_weather_data(data) ==
    IF data.shape # "dict" THEN None
    ELSE IF "daily" \notin data.keys \/ "daily_units" \notin data.keys THEN None
    ELSE LET daily_data == data.daily
             daily_units == data.daily_units
         IN  IF daily_data.shape # "dict" THEN Raise("AttributeError")
             ELSE IF ~daily_data.has_time THEN None
             ELSE IF daily_data.time.shape # "list" THEN Raise("TypeError")
             ELSE IF daily_units.shape # "dict" THEN Raise("AttributeError")
             ELSE LET dates == daily_data.time.vals
                      acc == ExtractLoop(1, daily_data, daily_units, Len(dates),
                                 [names |-> << "date" >>,
                                  processed |-> [keys |-> << "date" >>,
                                                 vals |-> [c \in {"date"} |-> dates]]])
                  IN  BuildFrame(acc.names, acc.processed)

\* ------------------------------------------------- the other functions
\* weather1.py:54-72: one GET; every failure is reported as None
fetch_forecast_weather(outcome) ==
    IF outcome.kind = "ok" THEN outcome.body ELSE None

\* number of requests.get calls one fetch_forecast_weather call makes
GetsIssued(outcome) == 1

\* weather1.py:179-188; an exception of process_weather_data propagates
fetch_and_process_forecast(outcome) ==
    LET weather_json == fetch_forecast_weather(outcome)
    IN  IF Truthy(weather_json) THEN process_weather_data(weather_json)
        ELSE None

\* len(df)
NRows(df) == Len(df.cells["date"])

\* df.iloc[0].to_dict()
FirstRow(df) == [c \in DOMAIN df.cells |-> df.cells[c][1]]

NoData == [status |-> 500, kind |-> "error", body |-> [k \in {"error"} |-> "No data"]]

\* what the framework answers when the view function raises
Unhandled == [status |-> 500, kind |-> "unhandled", body |-> [k \in {} |-> ""]]

\* application.py:10-15, given the value fetch_and_process_forecast produced
weather_response(df) ==
    IF df.shape = "raise" THEN Unhandled
    ELSE IF df.shape = "table" /\ NRows(df) > 0
         THEN [status |-> 200, kind |-> "row", body |-> FirstRow(df)]
         ELSE NoData

\* ------------------------------------------------------------ input spaces
Vals == { Num(1), Str(<< "7" >>), Str(<< "n", "a" >>), Null }

DateStrAt(i) ==
    CASE i = 1 -> "2024-01-01" [] i = 2 -> "2024-01-02"
      [] i = 3 -> "2024-01-03" [] OTHER -> "2024-01-04"

\* `time` lists: n consecutive days, at most one entry replaced by a string
\* that is no date or by null
TimeLists(n) ==
    { [i \in 1..n |-> Str(DateStrAt(i))] }
    \cup { [i \in 1..n |-> IF i = k THEN bad ELSE Str(DateStrAt(i))] :
              k \in 1..n, bad \in { Str("not-a-date"), Null } }

ListEntry(vals) == [shape |-> "list", vals |-> vals]
Absent == [shape |-> "absent"]
NotAList == [shape |-> "number"]

\* what `daily` may hold for one variable when `time` has n entries
DataCases(n) ==
    { Absent, NotAList }
    \cup { ListEntry(v) : v \in [1..n -> Vals] }
    \cup { ListEntry([i \in 1..l |-> Num(1)]) : l \in (0..(MaxN + 1)) \ {n} }

\* what `daily_units` may hold for one variable
UnitCases == { [has |-> FALSE, u |-> ""], [has |-> TRUE, u |-> ""],
               [has |-> TRUE, u |-> "mm"] }

BaseUnit == "%"

\* the `daily` and `daily_units` of a response in which every variable is
\* `base` ("full": a list of n numbers with a unit, "absent": no key at all)
\* except variable v, which holds dcase with unit ucase
MakeDaily(base, n, time, v, dcase, extra) ==
    LET dom == ((IF base = "full" THEN VarSet ELSE {}) \ {v})
               \cup (IF dcase.shape = "absent" THEN {} ELSE {v})
               \cup (IF extra THEN {ExtraKey} ELSE {})
    IN  [shape |-> "dict", has_time |-> TRUE, time |-> ListEntry(time),
         vars |-> [x \in dom |-> IF x = v THEN dcase
                                 ELSE ListEntry([i \in 1..n |-> Num(10 * i)])]]

MakeUnits(base, v, ucase) ==
    LET dom == ((IF base = "full" THEN VarSet ELSE {}) \ {v})
               \cup (IF ucase.has THEN {v} ELSE {})
    IN  [shape |-> "dict",
         units |-> [x \in dom |-> IF x = v THEN ucase.u ELSE BaseUnit]]

Response(daily, units) ==
    [shape |-> "dict", keys |-> {"latitude", "daily", "daily_units"},
     daily |-> daily, daily_units |-> units]

\* a response that reaches the variable loop
TableResponse(n, base, v, ucase, extra, time, dcase) ==
    Response(MakeDaily(base, n, time, v, dcase, extra), MakeUnits(base, v, ucase))

FullDaily(n) == MakeDaily("full", n, [i \in 1..n |-> Str(DateStrAt(i))],
                          WEATHER_VARIABLES[1],
                          ListEntry([i \in 1..n |-> Num(i)]), FALSE)
FullUnits == MakeUnits("full", WEATHER_VARIABLES[1], [has |-> TRUE, u |-> "mm"])

\* responses with a wrong shape somewhere above the variable level
StructPayloads ==
    { [shape |-> "list", len |-> l] : l \in 0..1 }
    \cup { [shape |-> "str"] }
    \cup { [shape |-> "dict", keys |-> k, daily |-> d, daily_units |-> FullUnits] :
              k \in SUBSET {"latitude", "daily", "daily_units"},
              d \in { FullDaily(1), [FullDaily(1) EXCEPT !.has_time = FALSE] } }
    \cup { Response(d, u) :
              d \in { [shape |-> "list"], FullDaily(1),
                      [FullDaily(1) EXCEPT !.has_time = FALSE],
                      [FullDaily(1) EXCEPT !.time = NotAList] },
              u \in { [shape |-> "list"], FullUnits } }

Failures == {"network_error", "bad_status", "malformed_body"}

Ok(body) == [kind |-> "ok", body |-> body]

\* what the GET of one script run may end in, apart from a table response
FetchOutcomes ==
    { [kind |-> k, body |-> None] : k \in Failures }
    \cup { Ok(p) : p \in StructPayloads \cup {None} }

\* the bodies the web requests of the model receive
ScenarioResponse ==
    Response(MakeDaily("absent", 2, [i \in 1..2 |-> Str(DateStrAt(i))],
                       WEATHER_VARIABLES[1],
                       ListEntry(<< Num(1), Num(2) >>), FALSE),
             MakeUnits("absent", WEATHER_VARIABLES[1], [has |-> TRUE, u |-> "mm"]))

WebBodies ==
    { None,
      [shape |-> "list", len |-> 0],
      [shape |-> "list", len |-> 1],
      Response([shape |-> "list"], FullUnits),
      Response([FullDaily(1) EXCEPT !.has_time = FALSE], FullUnits),
      Response(FullDaily(0), FullUnits),
      Response(FullDaily(2), FullUnits),
      Response([FullDaily(2) EXCEPT !.time = ListEntry(<< Str("not-a-date"),
                                                         Str("2024-01-02") >>)],
               FullUnits),
      ScenarioResponse }

WebOutcomes ==
    { [kind |-> k, body |-> None] : k \in Failures }
    \cup { Ok(p) : p \in WebBodies }

\* outcome of one file write: done, raised IOError, raised something else
WriteOutcomes == { "ok", "IOError", "OtherError" }

\* weather1.py:149-176
save_output_files(df, csv, js) ==
    IF df = None
    THEN [csv_write |-> "none", json_write |-> "none", status |-> "returned"]
    ELSE IF csv = "OtherError"
         THEN [csv_write |-> "failed", json_write |-> "none", status |-> "raised"]
         ELSE [csv_write |-> IF csv = "ok" THEN "ok" ELSE "failed",
               json_write |-> IF js = "ok" THEN "ok" ELSE "failed",
               status |-> "returned"]

\* ------------------------------------------------------------------- state
VARIABLES
    pc,           \* "start", then the script's or the web application's position
    fetched,      \* script: the outcome of the outbound GET
    weather_json, \* script: what fetch_forecast_weather returned
    forecast_df,  \* script: what fetch_and_process_forecast returned (or raised)
    saved,        \* script: what save_output_files did
    gets,         \* outbound GETs issued so far
    log           \* web: one record per /api/weather request served

vars == << pc, fetched, weather_json, forecast_df, saved, gets, log >>

NotRun == [shape |-> "notrun"]
NotSaved == [csv_write |-> "none", json_write |-> "none", status |-> "not_called"]

Init ==
    /\ pc = "start"
    /\ fetched = [kind |-> "none", body |-> None]
    /\ weather_json = NotRun
    /\ forecast_df = NotRun
    /\ saved = NotSaved
    /\ gets = 0
    /\ log = << >>

\* the script's call of fetch_and_process_forecast when the GET ended in o
ScriptFetch(o) ==
    /\ fetched' = o
    /\ weather_json' = fetch_forecast_weather(o)
    /\ forecast_df' = fetch_and_process_forecast(o)
    /\ gets' = gets + GetsIssued(o)
    /\ pc' = IF fetch_and_process_forecast(o).shape = "raise"
             THEN "crashed" ELSE "processed"

\* weather1.py:200; the GET fails, or returns a body of a wrong shape, or
\* returns a forecast response
main_fetch_and_process ==
    /\ pc = "start"
    /\ \/ \E o \in FetchOutcomes : ScriptFetch(o)
       \/ \E n \in 0..MaxN, base \in {"full", "absent"}, v \in VarSet,
             ucase \in UnitCases, extra \in BOOLEAN :
             \E time \in TimeLists(n), dcase \in DataCases(n) :
                ScriptFetch(Ok(TableResponse(n, base, v, ucase, extra,
                                             time, dcase)))
    /\ UNCHANGED << saved, log >>

\* weather1.py:201-203, the script saves the table it got
main_save ==
    /\ pc = "processed"
    /\ forecast_df # None
    /\ \E csv \in WriteOutcomes, js \in WriteOutcomes :
          /\ saved' = save_output_files(forecast_df, csv, js)
          /\ pc' = IF save_output_files(forecast_df, csv, js).status = "raised"
                   THEN "crashed" ELSE "done"
    /\ UNCHANGED << fetched, weather_json, forecast_df, gets, log >>

\* weather1.py:204-205, nothing to save
main_no_output ==
    /\ pc = "processed"
    /\ forecast_df = None
    /\ pc' = "done"
    /\ UNCHANGED << fetched, weather_json, forecast_df, saved, gets, log >>

\* variant: a request whose fetch gave nothing answers from the last response
weather_cached ==
    /\ pc \in {"start", "serving"}
    /\ Len(log) < MaxRequests
    /\ \E o \in WebOutcomes :
          /\ log' = Append(log, [fetched |-> o,
                                 gets |-> GetsIssued(o),
                                 called |-> Truthy(fetch_forecast_weather(o)),
                                 df |-> fetch_and_process_forecast(o),
                                 response |->
                                    IF fetch_and_process_forecast(o) = None
                                       /\ log # << >>
                                    THEN log[Len(log)].response
                                    ELSE weather_response(
                                            fetch_and_process_forecast(o))])
          /\ gets' = gets + GetsIssued(o)
    /\ pc' = "serving"
    /\ UNCHANGED << fetched, weather_json, forecast_df, saved >>

\* application.py:10-15, one GET /api/weather
weather ==
    /\ pc \in {"start", "serving"}
    /\ Len(log) < MaxRequests
    /\ \E o \in WebOutcomes :
          /\ log' = Append(log, [fetched |-> o,
                                 gets |-> GetsIssued(o),
                                 called |-> Truthy(fetch_forecast_weather(o)),
                                 df |-> fetch_and_process_forecast(o),
                                 response |-> weather_response(
                                                 fetch_and_process_forecast(o))])
          /\ gets' = gets + GetsIssued(o)
    /\ pc' = "serving"
    /\ UNCHANGED << fetched, weather_json, forecast_df, saved >>

Next == main_fetch_and_process \/ main_save \/ main_no_output \/ weather

Spec == Init /\ [][Next]_vars

\* ------------------------------------------------------ vocabulary of claims
\* the script called process_weather_data(weather_json); forecast_df holds
\* what the call produced
Called == weather_json # NotRun /\ Truthy(weather_json)

\* the payload passes every check made before the loop over the variables
ReachesLoop(d) ==
    /\ d.shape = "dict"
    /\ "daily" \in d.keys /\ "daily_units" \in d.keys
    /\ d.daily.shape = "dict" /\ d.daily.has_time
    /\ d.daily.time.shape = "list"
    /\ d.daily_units.shape = "dict"

TimeLen(d) == Len(d.daily.time.vals)

WellFormed(d, var) ==
    /\ var \in DOMAIN d.daily.vars
    /\ d.daily.vars[var].shape = "list"
    /\ Len(d.daily.vars[var].vals) = TimeLen(d)

HasUnit(d, var) == var \in DOMAIN d.daily_units.units

DatesParse(d) ==
    \A i \in 1..TimeLen(d) :
        d.daily.time.vals[i].t = "str" /\ d.daily.time.vals[i].s \in DOMAIN IsoDate

NoBadDateString(d) ==
    \A i \in 1..TimeLen(d) :
        d.daily.time.vals[i].t = "str" => d.daily.time.vals[i].s \in DOMAIN IsoDate

\* a response as the data model describes it: every configured variable a
\* list as long as `time`, and a unit string for each
ValidResponse(d) ==
    /\ ReachesLoop(d)
    /\ \A var \in VarSet : WellFormed(d, var) /\ HasUnit(d, var)

Suffixed(d, var) == var \o " (" \o d.daily_units.units[var] \o ")"

AllMissing(col) == \A i \in 1..Len(col) : col[i] = NaN

\* ------------------------------------------------------------------ claims
ExpectedColumns(d) ==
    << "date" >> \o [k \in 1..Len(WEATHER_VARIABLES) |->
                        Suffixed(d, WEATHER_VARIABLES[k])]

TableOfShape(df, n, cols) ==
    /\ df.shape = "table"
    /\ NRows(df) = n
    /\ df.columns = cols
    /\ DOMAIN df.cells = { cols[k] : k \in 1..Len(cols) }
    /\ \A c \in DOMAIN df.cells : Len(df.cells[c]) = n

\* C1 as stated: every response with `time` of length N, every configured
\* variable a list of length N and a unit string for every variable gives a
\* table of N rows with columns date, "<variable> (<unit>)" in VARIABLES order
C1_Original ==
    (Called /\ ValidResponse(weather_json))
        => TableOfShape(forecast_df, TimeLen(weather_json),
                        ExpectedColumns(weather_json))

\* C1 amended: the same, for responses whose unit strings are non-empty and
\* whose `time` holds no string that fails to parse as a date; keys of `daily`
\* that are not configured add no column
C1_TableShape ==
    (/\ Called
     /\ ValidResponse(weather_json)
     /\ \A var \in VarSet : weather_json.daily_units.units[var] # ""
     /\ NoBadDateString(weather_json))
        => TableOfShape(forecast_df, TimeLen(weather_json),
                        ExpectedColumns(weather_json))

C1_Witness ==
    /\ Called
    /\ ValidResponse(weather_json)
    /\ \A var \in VarSet : weather_json.daily_units.units[var] # ""
    /\ NoBadDateString(weather_json)
    /\ TimeLen(weather_json) = 2
    /\ ExtraKey \in DOMAIN weather_json.daily.vars
    /\ forecast_df.shape = "table"
    /\ Len(forecast_df.columns) = 1 + Len(WEATHER_VARIABLES)

\* the column of the k-th configured variable
ColumnOf(df, k) == df.columns[k + 1]

\* C4 as stated: the display name is "<variable> (<unit>)" whenever
\* daily_units has a unit string for the variable, whatever the string, and
\* the bare name only when it has none
C4_Original ==
    (Called /\ ReachesLoop(weather_json) /\ forecast_df.shape = "table")
        => \A k \in 1..Len(WEATHER_VARIABLES) :
              LET var == WEATHER_VARIABLES[k]
              IN  ColumnOf(forecast_df, k) =
                     IF HasUnit(weather_json, var)
                     THEN Suffixed(weather_json, var) ELSE var

\* C4 amended: the display name is "<variable> (<unit>)" whenever daily_units
\* has a non-empty unit string for the variable, and the bare variable name
\* when it has no unit string or an empty one
C4_DisplayName ==
    (Called /\ ReachesLoop(weather_json) /\ forecast_df.shape = "table")
        => \A k \in 1..Len(WEATHER_VARIABLES) :
              LET var == WEATHER_VARIABLES[k]
              IN  ColumnOf(forecast_df, k) =
                     IF HasUnit(weather_json, var)
                        /\ weather_json.daily_units.units[var] # ""
                     THEN Suffixed(weather_json, var) ELSE var

C4_Witness ==
    /\ Called /\ ReachesLoop(weather_json) /\ forecast_df.shape = "table"
    /\ \E j, k \in 1..Len(WEATHER_VARIABLES) :
          /\ HasUnit(weather_json, WEATHER_VARIABLES[j])
          /\ weather_json.daily_units.units[WEATHER_VARIABLES[j]] = ""
          /\ ColumnOf(forecast_df, j) = WEATHER_VARIABLES[j]
          /\ HasUnit(weather_json, WEATHER_VARIABLES[k])
          /\ ColumnOf(forecast_df, k) = WEATHER_VARIABLES[k] \o " (%)"

\* C2 as stated: process_weather_data returns a table or None for every
\* payload and never raises to its caller
C2_NeverRaises == Called => forecast_df.shape \in {"table", "None"}

\* the payload with variable var replaced by a list of N numbers
WithWellFormed(d, var) ==
    [d EXCEPT !.daily.vars =
        [x \in (DOMAIN d.daily.vars) \cup {var} |->
            IF x = var THEN ListEntry([i \in 1..TimeLen(d) |-> Num(0)])
            ELSE d.daily.vars[x]]]

\* C3: a configured variable that is absent from `daily`, not a list, or of
\* a length other than N gets a column of N missing-value markers; the
\* transform ends as it would with the variable well-formed (a table whenever
\* the dates convert), with the same column names and the same values in
\* every other column
C3_DegradedColumn ==
    (Called /\ ReachesLoop(weather_json))
        => \A k \in 1..Len(WEATHER_VARIABLES) :
              LET var == WEATHER_VARIABLES[k]
                  ref == process_weather_data(WithWellFormed(weather_json, var))
              IN  ~WellFormed(weather_json, var) =>
                     /\ forecast_df.shape = ref.shape
                     /\ NoBadDateString(weather_json) => forecast_df.shape = "table"
                     /\ forecast_df.shape = "table" =>
                           /\ forecast_df.columns = ref.columns
                           /\ NRows(forecast_df) = TimeLen(weather_json)
                           /\ Len(forecast_df.cells[ColumnOf(forecast_df, k)])
                                 = TimeLen(weather_json)
                           /\ AllMissing(forecast_df.cells[ColumnOf(forecast_df, k)])
                           /\ \A c \in DOMAIN forecast_df.cells :
                                 c # ColumnOf(forecast_df, k) =>
                                    forecast_df.cells[c] = ref.cells[c]

\* a two-row table in which one variable was present but malformed and
\* another column carries its values
C3_Witness ==
    /\ Called /\ ReachesLoop(weather_json)
    /\ forecast_df.shape = "table"
    /\ TimeLen(weather_json) = 2
    /\ \E j, k \in 1..Len(WEATHER_VARIABLES) :
          /\ WEATHER_VARIABLES[j] \in DOMAIN weather_json.daily.vars
          /\ ~WellFormed(weather_json, WEATHER_VARIABLES[j])
          /\ forecast_df.cells[ColumnOf(forecast_df, j)] = << NaN, NaN >>
          /\ WellFormed(weather_json, WEATHER_VARIABLES[k])
          /\ forecast_df.cells[ColumnOf(forecast_df, k)] = << Num(10), Num(20) >>

\* `'time' in daily` is false: daily is a mapping without the key, or no
\* mapping at all
DailyLacksTime(d) == d.daily.shape # "dict" \/ ~d.daily.has_time

\* the payloads C5 calls structurally wrong
StructurallyWrong(d) ==
    \/ d.shape # "dict"
    \/ "daily" \notin d.keys
    \/ "daily_units" \notin d.keys
    \/ DailyLacksTime(d)

\* C5 as stated: a payload that is no mapping, or lacks `daily`, or lacks
\* `daily_units`, or whose `daily` lacks `time`, gives None and no table
C5_StructuralNone ==
    (Called /\ StructurallyWrong(weather_json)) => forecast_df = None

\* C9 as stated: when some value of `time` does not parse as a calendar date
\* the result is None, so every row of a returned table has a parsed date
C9_ValidDates ==
    (Called /\ ReachesLoop(weather_json))
        => /\ ~DatesParse(weather_json) => forecast_df = None
           /\ forecast_df.shape = "table" =>
                 \A i \in 1..NRows(forecast_df) :
                    forecast_df.cells["date"][i].t = "date"

\* what numeric coercion is to make of each raw value of the input space
Coerced(c) ==
    IF c = Num(1) THEN Num(1)
    ELSE IF c = Num(10) THEN Num(10)
    ELSE IF c = Num(20) THEN Num(20)
    ELSE IF c = Num(30) THEN Num(30)
    ELSE IF c = Str(<< "7" >>) THEN Num(7)
    ELSE NaN

WithNumbersOnly(d, var) == WithWellFormed(d, var)

\* C10: for a well-formed variable list, a value that cannot be coerced to a
\* number becomes a missing-value marker in its own cell, every other cell
\* keeps its number, the row count stays N, and the transform ends as it
\* would had the list held numbers only
C10_PerValueCoercion ==
    (Called /\ ReachesLoop(weather_json))
        => \A k \in 1..Len(WEATHER_VARIABLES) :
              LET var == WEATHER_VARIABLES[k]
              IN  WellFormed(weather_json, var) =>
                     /\ forecast_df.shape =
                           process_weather_data(
                               WithNumbersOnly(weather_json, var)).shape
                     /\ forecast_df.shape = "table" =>
                           /\ NRows(forecast_df) = TimeLen(weather_json)
                           /\ Len(forecast_df.cells[ColumnOf(forecast_df, k)])
                                 = TimeLen(weather_json)
                           /\ \A i \in 1..TimeLen(weather_json) :
                                 forecast_df.cells[ColumnOf(forecast_df, k)][i]
                                    = Coerced(weather_json.daily.vars[var].vals[i])

\* a column in which one value was coerced away and its neighbour converted
C10_Witness ==
    /\ Called /\ ReachesLoop(weather_json)
    /\ forecast_df.shape = "table"
    /\ \E k \in 1..Len(WEATHER_VARIABLES) :
          /\ WellFormed(weather_json, WEATHER_VARIABLES[k])
          /\ weather_json.daily.vars[WEATHER_VARIABLES[k]].vals
                = << Str(<< "n", "a" >>), Str(<< "7" >>) >>
          /\ forecast_df.cells[ColumnOf(forecast_df, k)] = << NaN, Num(7) >>

\* fetch followed by transform yields a table with at least one row
YieldsRows(o) ==
    LET df == process_weather_data(fetch_forecast_weather(o))
    IN  df.shape = "table" /\ Len(df.cells["date"]) > 0

\* C6 as stated: /api/weather answers 200 with the fields of row 0 exactly
\* when fetch and transform yield a table with a row, and {"error": "No data"}
\* with status 500 in every other case; the transformer runs only after a
\* fetch that returned data
C6_Endpoint ==
    \A i \in 1..Len(log) :
        LET r == log[i]
        IN  /\ r.called => (r.fetched.kind = "ok" /\ r.fetched.body # None)
            /\ YieldsRows(r.fetched) =>
                  /\ r.response.status = 200
                  /\ DOMAIN r.response.body = DOMAIN r.df.cells
                  /\ \A c \in DOMAIN r.df.cells :
                        r.response.body[c] = r.df.cells[c][1]
            /\ ~YieldsRows(r.fetched) => r.response = NoData

\* C7 as stated: with a table to save, both writes are attempted whatever
\* the other write did, and save_output_files returns normally
C7_IndependentWrites ==
    saved.status # "not_called"
        => /\ saved.csv_write # "none"
           /\ saved.json_write # "none"
           /\ saved.status = "returned"

\* C8: every /api/weather request issues exactly one outbound GET, a fetch
\* that failed (network error, bad status, malformed body) is answered "no
\* data" without a retry, and two requests whose fetches gave the same
\* result get the same response whatever was served before them
C8_NoRetryNoCache ==
    /\ pc = "serving" => gets = Len(log)
    /\ \A i \in 1..Len(log) :
          /\ log[i].gets = 1
          /\ log[i].fetched.kind # "ok" => log[i].response = NoData
          /\ \A j \in 1..Len(log) :
                log[i].fetched = log[j].fetched
                   => log[i].response = log[j].response

\* a served row followed by a failed fetch that is answered "no data"
C8_Witness ==
    /\ Len(log) = 2 /\ gets = 2
    /\ log[1].response.status = 200
    /\ log[2].fetched.kind = "network_error"
    /\ log[2].response = NoData

====
